---- MODULE Spec2Model ----
(***************************************************************************)
(* Enrichment job orchestrator of the inventory application:               *)
(*   inventory/product_asset.py  job reservation, start, finalize, run     *)
(*   inventory/background.py     in-process FIFO worker thread             *)
(*   inventory/tasks.py          task-queue task with automatic retries    *)
(*   inventory/management/commands/product_asset_bot.py  the caller        *)
(* and the image side of the enrichment bot:                               *)
(*   inventory/bot.py  _DailyQuota, _find_search_image, ensure_image,      *)
(*                     ensure_descriptions, ensure_pdf_brochures           *)
(*   inventory/category_auto.py  the category classifier                   *)
(*   inventory/datasheets.py     score_result, pick_best_pdf               *)
(***************************************************************************)
EXTENDS Integers, Sequences, FiniteSets, TLC

(* ------------------------------ bounds --------------------------------- *)
NumProducts == 2
MaxRequests == 2
MaxWorkers == 2
NumCallers == 2
NumThreads == 2
MaxLimit == 2
MaxDays == 2
MaxCalls == 3
MaxQueries == 2
MaxTries == 2
MaxImageCalls == 2
MaxRules == 2
MaxGenerations == 3
MaxItems == 2

(* ------------------------- program constants --------------------------- *)
MaxRetries == 3
PdfScore == 50
ModelScore == 50
FirmwarePenalty == 40
ManualPenalty == 20
BestScoreFloor == 1000000000

Products == 1..NumProducts
WorkerIds == 1..MaxWorkers
Callers == 1..NumCallers
Threads == 1..NumThreads
QuotaObjs == 1..NumThreads
MainThread == 1
Days == 1..MaxDays
Null == 0

QUEUED == "queued"
RUNNING == "running"
SUCCESS == "success"
FAILED == "failed"
Status == {QUEUED, RUNNING, SUCCESS, FAILED}

INFO == "info"
WARNING == "warning"
ERROR == "error"

ForceFlags == {"description", "image", "techsheet", "pdf", "videos", "blog"}

(* request inputs: an asset list and the set of force flags that are true *)
Requests ==
    {[assets |-> <<"description", "images">>, force |-> {"image"}],
     [assets |-> <<"images">>, force |-> {"description"}]}
Modes == {"inline", "worker", "task"}

Inline == <<"inline", 0>>
Task == <<"task", 0>>
WorkerCtx(w) == <<"worker", w>>
Ctx == {Inline, Task} \cup {WorkerCtx(w) : w \in WorkerIds}

VARIABLES
    products,     \* ids of the Product rows that exist
    jobs,         \* ProductAssetJob rows, indexed by primary key 1..Len(jobs)
    worker,       \* the module global _worker (Null or a worker id)
    started,      \* the worker threads that were constructed
    queue,        \* queue[w]: the Queue of worker w
    run,          \* run[c]: the execution of run_product_asset_bot in context c
    inline_mode,  \* how Command.handle executes the jobs it creates
    caller,       \* caller[k]: a caller inside reserve_product_asset_job
    nreq,         \* number of reserve requests made so far
    lastReserve,  \* history: the last completed reserve_product_asset_job
    enqOrder,     \* history: job ids in the order their entries were enqueued
    procOrder,    \* history: job ids in the order their entries were dequeued
    doneSet,      \* history: job ids whose entry the worker finished handling
    invoked       \* history: job ids for which bot.ensure_assets was called

VARIABLES
    quota_file,   \* content of the usage file of one provider: date and count
    today,        \* date.today()
    quota_lock,   \* quota_lock[o]: the Lock of _DailyQuota object o is held
    quota_of,     \* quota_of[t]: the _DailyQuota object thread t calls
    daily_limit,  \* the provider's daily limit setting
    reserve,      \* reserve[t]: thread t inside _DailyQuota.reserve
    accepted,     \* history: accepted[d]: reserve() calls of day d that returned True
    ncalls        \* number of reserve() calls made so far

VARIABLES
    bot,          \* the ProductAssetBot and the settings and queries it works with
    image,        \* the running ensure_image call
    product_image,\* the product's image fields and their placeholder flags
    nimage,       \* number of ensure_image calls made so far
    looked_local, \* history: _find_local_image was called
    downloaded    \* history: the URLs image_session.get was called with

VARIABLES
    classify,     \* one run of run_auto_assign_categories for one product
    gen,          \* the product's texts and asset rows under the asset generators
    pdf           \* one call of pick_best_pdf

extraVars == <<classify, gen, pdf>>

jobVars == <<products, jobs, worker, started, queue, run, inline_mode, caller, nreq,
             lastReserve, enqOrder, procOrder, doneSet, invoked>>
quotaVars == <<quota_file, today, quota_lock, quota_of, daily_limit, reserve,
               accepted, ncalls>>
imageVars == <<bot, image, product_image, nimage, looked_local, downloaded>>
botVars == <<quotaVars, imageVars, extraVars>>

vars == <<jobVars, quotaVars, imageVars, extraVars>>

SeqToSet(s) == {s[i] : i \in 1..Len(s)}

(* ---------------------------- product_asset.py ------------------------- *)

\* timezone.now() as seen by one job row: an instant later than every
\* timestamp the row already holds (Null is 0, the first instant is 1)
Now(job) ==
    (IF job.started_at >= job.finished_at THEN job.started_at ELSE job.finished_at) + 1

LogEntry(message, level) == [message |-> message, level |-> level]

\* _start_job without its guards: every start stamps the job anew
StartJobAlways(job, t) ==
    [job EXCEPT !.status = RUNNING,
                     !.started_at = t,
                     !.last_message = "En cours..."]

\* _start_job: no-op when already running, else status/started_at/last_message
StartJob(job, t) ==
    IF job.status = RUNNING THEN job
    ELSE [job EXCEPT !.status = RUNNING,
                     !.started_at = IF job.started_at # Null THEN job.started_at ELSE t,
                     !.last_message = "En cours..."]

\* _finalize_job
FinalizeJob(job, success, message, description_changed, image_changed, asset_changes, level, t) ==
    [job EXCEPT !.status = IF success THEN SUCCESS ELSE FAILED,
                !.finished_at = t,
                !.processed_products = 1,
                !.last_message = message,
                !.description_changed = description_changed,
                !.image_changed = image_changed,
                !.asset_changes = asset_changes,
                !.log = Append(job.log, LogEntry(message, level))]

\* a lookup that forgets the running jobs
PendingJobQueuedOnly(js, p) ==
    LET ids == {j \in 1..Len(js) : js[j].product = p /\ js[j].status = QUEUED}
    IN IF ids = {} THEN Null ELSE CHOOSE j \in ids : \A k \in ids : k <= j

\* get_pending_product_asset_job: Meta.ordering is -created_at, so first()
\* is the most recently created matching row (Null when there is none)
PendingJob(js, p) ==
    LET ids == {j \in 1..Len(js) : js[j].product = p /\ js[j].status \in {QUEUED, RUNNING}}
    IN IF ids = {} THEN Null ELSE CHOOSE j \in ids : \A k \in ids : k <= j

\* create_product_asset_job
NewJob(p, mode, assets, force) ==
    [product |-> p, mode |-> mode, status |-> QUEUED,
     total_products |-> 1, processed_products |-> 0,
     assets |-> assets, force |-> force,
     description_changed |-> FALSE, image_changed |-> FALSE, asset_changes |-> {},
     started_at |-> Null, finished_at |-> Null,
     last_message |-> "En file d'attente.",
     log |-> <<LogEntry("Produit en file d'attente.", INFO)>>]

\* the asset list of a pending job after a request is merged into it
MergeAssets(old, req) == IF req # <<>> /\ old # req THEN req ELSE old

\* a merge that overwrites the flags with the requested ones
MergeForceOverwrite(old, req) == req

\* the force flags of a pending job after a request is merged into it
MergeForce(old, req) == old \cup req

\* reserve_product_asset_job, branch "if pending": does the request change
\* the in-memory pending job (the local variable updated)
MergeUpdated(job, assets, force) ==
    (assets # <<>> /\ job.assets # assets) \/ (force \ job.force # {})

\* reserve_product_asset_job, branch "if pending": pending.save(update_fields)
\* writes the merged fields of the in-memory object obj over the stored row
MergeJob(row, obj, assets, force) ==
    IF MergeUpdated(obj, assets, force)
    THEN [row EXCEPT !.assets = MergeAssets(obj.assets, assets),
                     !.force = MergeForce(obj.force, force),
                     !.last_message = "Parametres de traitement mis a jour.",
                     !.log = Append(row.log, LogEntry("Options de traitement mises a jour.", INFO))]
    ELSE row

\* a run that never notices a missing product
ProductAlwaysFound(ps, pid) == TRUE

\* Product.objects.filter(pk=product_id).first() found a row
ProductExists(ps, pid) == pid \in ps

\* the keys of the change-set ensure_assets can report for an asset list
PossibleChanges(assets) ==
    LET asset_set == IF assets = <<>> THEN {"description", "images"} ELSE SeqToSet(assets)
    IN (IF "description" \in asset_set THEN {"description_changed"} ELSE {})
       \cup (IF "images" \in asset_set THEN {"image_changed"} ELSE {})

(* ------------------------------ background.py -------------------------- *)

\* _ProductAssetJobEntry
Entry(job_id, product_ids, assets, force) ==
    [job_id |-> job_id, product_ids |-> product_ids, assets |-> assets, force |-> force]

\* ProductAssetJobWorker.enqueue: Queue.put on an unbounded queue
QueuePut(q, entry) == Append(q, entry)

\* ProductAssetJobWorker._mark_job_failed
MarkJobFailed(job, message, t) ==
    [job EXCEPT !.status = FAILED,
                !.finished_at = t,
                !.last_message = message,
                !.log = Append(job.log, LogEntry(message, ERROR))]

\* a lookup that constructs a worker on every call
GetProductAssetWorkerNoCheck(cur, fresh) == fresh

\* get_product_asset_worker: under _worker_lock, construct the worker only
\* when the global is still None
GetProductAssetWorker(cur, fresh) == IF cur = Null THEN fresh ELSE cur

\* a worker thread that ends after handling an exception
AfterExceptDies == "crashed"

\* ProductAssetJobWorker.run: where the loop continues after the except clause
AfterExcept == "idle"

\* generate_product_assets: autoretry_for=(Exception,), max_retries=3
ShouldRetry(retries) == retries < MaxRetries

(* ------------------------- bot.py: _DailyQuota -------------------------- *)

\* the usage file when it does not exist or cannot be parsed: _read gives {}
EmptyData == [date |-> 0, count |-> 0]

\* _DailyQuota._read: the stored counter, {} when the file is missing,
\* unreadable or not JSON
QuotaRead(file, ok) == IF ok THEN file ELSE EmptyData

\* _DailyQuota._write: write_text, and a silent return on OSError
QuotaWrite(file, data, ok) == IF ok THEN data ELSE file

\* reserve: if data.get("date") != today: data = {"date": today, "count": 0}
QuotaToday(data, day) == IF data.date # day THEN [date |-> day, count |-> 0] ELSE data

\* reserve: if data.get("count", 0) >= self.daily_limit: return False
QuotaReached(data, limit) == data.count >= limit

\* reserve: data["count"] = int(data.get("count", 0)) + 1
QuotaIncrement(data) == [data EXCEPT !.count = @ + 1]

IdleReserve == [pc |-> "idle", today |-> 0, data |-> EmptyData, result |-> FALSE]

(* --------------------- bot.py: image search and storage ----------------- *)

\* an image URL as urlparse sees it: the host, and the port when the URL
\* names one (0: no port in the URL)
NoUrl == [host |-> "", port |-> 0]
RealUrl == [host |-> "cdn.example.com", port |-> 0]
PlaceholderUrl == [host |-> "placehold.co", port |-> 0]
PlaceholderPortUrl == [host |-> "placehold.co", port |-> 443]
Urls == {RealUrl, PlaceholderUrl, PlaceholderPortUrl}

\* ProductAssetBot.__init__: the default PRODUCT_BOT_PLACEHOLDER_DOMAINS
placeholder_domains == {"dummyimage.com", "via.placeholder.com", "placehold.co"}

\* urlparse(image_url).netloc: "host", or "host:port" when the URL has a port
Netloc(url) == <<url.host, url.port>>

\* the netloc of a URL that consists of the domain alone
DomainNetloc(domain) == <<domain, 0>>

\* _is_placeholder_url: urlparse(image_url).netloc.lower() in placeholder_domains
IsPlaceholderUrl(url) == Netloc(url) \in {DomainNetloc(d) : d \in placeholder_domains}

\* the first and the second provider of one loop iteration of _find_search_image
Primary == "google"
Secondary == "serper"

Max2(a, b) == IF a >= b THEN a ELSE b
Min2(a, b) == IF a <= b THEN a ELSE b

\* _find_search_image: tries = max(max_tries or 1, 1)
Tries(max_tries) == Max2(IF max_tries = 0 THEN 1 ELSE max_tries, 1)

\* _build_google_queries: the queries built for the product
Queries(n) == [i \in 1..n |-> i]

\* a router that goes through every query
AllQueries(queries, tries) == queries

\* _find_search_image: queries[:tries]
QueriesToTry(queries, tries) == SubSeq(queries, 1, Min2(tries, Len(queries)))

\* a router that never returns from inside the loop
SearchNeverStops(url) == FALSE

\* _find_search_image: "if url: return url, <provider>"
SearchStops(url) == url # NoUrl

\* _find_search_image: the next provider call of the loop at or after
\* (query index qi, provider stage), skipping a provider that is not
\* configured; "resolve" when the loop is over
RECURSIVE LoopPoint(_, _, _, _)
LoopPoint(b, slice, qi, stage) ==
    IF qi > Len(slice) THEN [pc |-> "resolve", qi |-> qi]
    ELSE IF stage = Primary
         THEN IF b.google_search THEN [pc |-> Primary, qi |-> qi]
              ELSE LoopPoint(b, slice, qi, Secondary)
         ELSE IF b.serper_search THEN [pc |-> Secondary, qi |-> qi]
              ELSE LoopPoint(b, slice, qi + 1, Primary)

\* ensure_image: the flag that belongs to the image field written
PlaceholderField(image_field) ==
    IF image_field = "pending_image" THEN "pending_image_is_placeholder"
    ELSE "image_is_placeholder"

ImageFields == {"image", "pending_image"}

\* values of an image field: empty, the local file, a downloaded URL
NoImage == [kind |-> "none", url |-> NoUrl]
LocalImage == [kind |-> "local", url |-> NoUrl]
UrlImage(url) == [kind |-> "url", url |-> url]

\* ensure_image: "if field and not force and not is_placeholder": skip
AlreadyHasImage(product, image_field, force) ==
    /\ product[image_field] # NoImage
    /\ ~force
    /\ ~product[PlaceholderField(image_field)]

\* _apply_local_image: False when the field already names this file
ApplyLocalImage(product, image_field) == product[image_field] # LocalImage

\* ensure_image: the search result, else the URL template (_build_image_url)
ImageUrl(found, template) == IF found # NoUrl THEN found ELSE template

\* ensure_image: "if is_placeholder and not self.allow_placeholders: return False"
PlaceholderBlocked(url, allow_placeholders) == IsPlaceholderUrl(url) /\ ~allow_placeholders

NewProduct == [image |-> NoImage, image_is_placeholder |-> FALSE,
               pending_image |-> NoImage, pending_image_is_placeholder |-> FALSE]

IdleImage == [pc |-> "idle", force |-> FALSE, image_field |-> "image", qi |-> 0,
              calls |-> <<>>, url |-> NoUrl, source |-> "none", result |-> FALSE]

SearchResults == {NoUrl} \cup Urls

(* ---------------------- category_auto.py: classifier -------------------- *)

None == "None"

\* Category.name values (unique)
Names == {"Alarme", "Camera", "Non Classe", "---"}

\* _normalize: strip accents, replace what is not a letter or digit by a
\* space, lower-case, collapse the spaces
Normalize(text) ==
    CASE text = "Alarme" -> "alarme"
      [] text = "Camera" -> "camera"
      [] text = "Non Classe" -> "non classe"
      [] text = "---" -> ""
      [] OTHER -> text

\* len() of the normalized strings
StrLen(s) ==
    CASE s = "" -> 0
      [] s = "alarme" -> 6
      [] s = "camera" -> 6
      [] s = "non classe" -> 10

\* the place of a normalized string in the order Python compares str by
StrRank(s) ==
    CASE s = "" -> 0
      [] s = "alarme" -> 1
      [] s = "camera" -> 2
      [] s = "non classe" -> 3

UNCATEGORIZED_TOKENS ==
    {"non classe", "non classee", "uncategorized", "uncategorised",
     "sans categorie", "sans categoriee"}

\* _is_uncategorized
IsUncategorized(name) == Normalize(name) \in UNCATEGORIZED_TOKENS

\* Rule.score for keywords that are single words (no regexes): every keyword
\* found among the tokens adds its length to the score
RECURSIVE RuleScore(_, _)
RuleScore(keywords, tokens) ==
    IF keywords = <<>> THEN <<0, 0, 0>>
    ELSE LET rest == RuleScore(Tail(keywords), tokens)
             normalized == Normalize(Head(keywords))
         IN IF normalized = "" \/ normalized \notin tokens THEN rest
            ELSE <<rest[1] + StrLen(normalized), rest[2] + 1,
                   Max2(rest[3], StrLen(normalized))>>

\* _pick_best_rule: signature = (score, matched_terms, best_term_length,
\* _normalize(rule.category.name))
Signature(rule, tokens) ==
    LET s == RuleScore(rule.keywords, tokens)
    IN <<s[1], s[2], s[3], StrRank(Normalize(rule.category))>>

\* Python's tuple comparison a > b
RECURSIVE TupleGreater(_, _)
TupleGreater(a, b) ==
    IF a = <<>> THEN FALSE
    ELSE IF Head(a) # Head(b) THEN Head(a) > Head(b)
    ELSE TupleGreater(Tail(a), Tail(b))

\* _pick_best_rule: the loop from rule i on, with the best rule so far
RECURSIVE PickFrom(_, _, _, _, _)
PickFrom(rules, tokens, i, best_rule, best_signature) ==
    IF i > Len(rules) THEN best_rule
    ELSE LET signature == Signature(rules[i], tokens)
         IN IF TupleGreater(signature, best_signature)
            THEN PickFrom(rules, tokens, i + 1, i, signature)
            ELSE PickFrom(rules, tokens, i + 1, best_rule, best_signature)

\* _pick_best_rule: the index of the rule returned, 0 for None;
\* best_signature starts as (0, 0, 0, "")
PickBestRule(rules, tokens) == PickFrom(rules, tokens, 1, 0, <<0, 0, 0, StrRank("")>>)

\* a sequence of the elements of a set of names, ordered by name
RECURSIVE OrderByName(_)
OrderByName(S) ==
    IF S = {} THEN <<>>
    ELSE LET first == CHOOSE n \in S : \A m \in S : StrRank(Normalize(n)) <= StrRank(Normalize(m))
         IN <<first>> \o OrderByName(S \ {first})

\* _build_default_rules: one rule per category that is not uncategorized
\* and has a non-empty normalized name; keywords: the name and its tokens
RECURSIVE RulesOf(_)
RulesOf(names) ==
    IF names = <<>> THEN <<>>
    ELSE LET name == Head(names)
             normalized == Normalize(name)
         IN IF IsUncategorized(name) \/ normalized = "" THEN RulesOf(Tail(names))
            ELSE <<[category |-> name, keywords |-> <<normalized, normalized>>]>>
                    \o RulesOf(Tail(names))

BuildDefaultRules(categories) == RulesOf(OrderByName(categories))

\* the rules file is a record: whether rules_path exists, and the rules it holds
\* _load_rules: the rules of the JSON file, each with the Category that
\* get_or_create returns for its name; the default rules when the file does
\* not exist or holds no rule
LoadRules(file, categories) ==
    IF ~file.exists \/ file.rules = <<>> THEN BuildDefaultRules(categories)
    ELSE file.rules

\* _load_rules: the Category rows after get_or_create for every rule
CategoriesAfterLoad(file, categories) ==
    IF ~file.exists THEN categories
    ELSE categories \cup {file.rules[i].category : i \in 1..Len(file.rules)}

\* _candidate_categories (no default_category in the file)
CandidateCategories(categories) == {c \in categories : ~IsUncategorized(c)}

\* a run that goes on to the brand tier whatever the rule engine found
RulesNeverMatch(rule) == FALSE

\* run_auto_assign_categories: "if not rule:" is false
RuleMatched(rule) == rule # 0

IdleClassify ==
    [pc |-> "idle", file |-> [exists |-> FALSE, rules |-> <<>>],
     categories |-> {}, rules |-> <<>>,
     tokens |-> {}, category |-> None, dry_run |-> FALSE, use_ai |-> FALSE,
     calls |-> <<>>, rule |-> 0, target |-> None, changes |-> <<>>,
     categories0 |-> {}, category0 |-> None]

(* ------------------- bot.py: descriptions and asset rows ---------------- *)

\* texts of a product field or of the generator: empty/None, or one of two
Texts == {"", "text a", "text b"}

AssetTypes == {"image", "description", "specs", "pdf", "video", "blog"}

\* ProductAsset.objects.update_or_create(product=, asset_type=, defaults=):
\* a row is created only when the pair has none
UpdateOrCreate(assets, asset_type) ==
    IF assets[asset_type] = 0 THEN [assets EXCEPT ![asset_type] = 1] ELSE assets

\* ProductAsset.objects.create(product=, asset_type=, ...): always a new row
CreateAsset(assets, asset_type) == [assets EXCEPT ![asset_type] = @ + 1]

\* ensure_descriptions: "if not product.short_description or force"
WantsShort(g, force) == g.short_description = "" \/ force

\* ensure_descriptions: "if not product.long_description or force"
WantsLong(g, force) == g.long_description = "" \/ force

\* ensure_descriptions: the three change flags, given what the generator
\* returns for the short and for the long prompt
DescriptionChanges(g, force, short_desc, long_desc) ==
    IF ~g.text_generator THEN {}
    ELSE {c \in {"short_description_changed"} :
             WantsShort(g, force) /\ short_desc # "" /\ short_desc # g.short_description}
         \cup {c \in {"long_description_changed"} :
             WantsLong(g, force) /\ long_desc # "" /\ long_desc # g.long_description}
         \cup {c \in {"description_changed"} :
             WantsLong(g, force) /\ long_desc # "" /\ long_desc # g.description}

\* ensure_descriptions: the number of text_generator.generate_text calls
DescriptionCalls(g, force) ==
    IF ~g.text_generator THEN 0
    ELSE (IF WantsShort(g, force) THEN 1 ELSE 0) + (IF WantsLong(g, force) THEN 1 ELSE 0)


IdleGen ==
    [description |-> "", short_description |-> "", long_description |-> "",
     text_generator |-> FALSE, has_datasheet |-> FALSE, video_links |-> FALSE,
     assets |-> [a \in AssetTypes |-> 0], brochures |-> 0, ngen |-> 0,
     last |-> [kind |-> "none", force |-> FALSE, changes |-> {}, calls |-> 0]]

(* ---------------------- datasheets.py: pick_best_pdf -------------------- *)

\* search results by what score_result looks at: the link ends in .pdf, the
\* model is in link or title, "firmware" or "manual" is in the text
Items == [pdf : BOOLEAN, model : BOOLEAN, firmware : BOOLEAN, manual : BOOLEAN]

\* score_result (other bonuses do not apply to these results)
ScoreResult(item) ==
    (IF item.pdf THEN PdfScore ELSE 0) + (IF item.model THEN ModelScore ELSE 0)
    - (IF item.firmware THEN FirmwarePenalty ELSE 0)
    - (IF item.manual THEN ManualPenalty ELSE 0)

\* pick_best_pdf: the loop from item i on
RECURSIVE PickPdfFrom(_, _, _, _)
PickPdfFrom(items, i, best_url, best_score) ==
    IF i > Len(items) THEN best_url
    ELSE IF ScoreResult(items[i]) > best_score
         THEN PickPdfFrom(items, i + 1, i, ScoreResult(items[i]))
         ELSE PickPdfFrom(items, i + 1, best_url, best_score)

\* pick_best_pdf: the position of the item whose link is returned, 0 for
\* None; best_score starts at -10**9
PickBestPdf(items) == PickPdfFrom(items, 1, 0, -BestScoreFloor)

IdlePdf == [pc |-> "idle", items |-> <<>>, result |-> 0]

\* no classification, no generation and no datasheet search is running
ExtraAtRest ==
    /\ classify = IdleClassify
    /\ gen = IdleGen
    /\ pdf = IdlePdf

(* ------------------------------- contexts ------------------------------ *)

IdleRun ==
    [pc |-> "idle", job_id |-> Null, product_id |-> Null, todo |-> <<>>,
     assets |-> <<>>, force |-> {}, changes |-> {}, retries |-> 0]

\* a call run_product_asset_bot(product_id, assets=.., force_*=.., job_id=..)
BeginRun(job_id, product_ids, assets, force, retries) ==
    [IdleRun EXCEPT !.pc = "begin", !.job_id = job_id,
                    !.product_id = Head(product_ids), !.todo = Tail(product_ids),
                    !.assets = assets, !.force = force, !.retries = retries]

FreePcs == {"idle", "done", "crashed"}

IdleCaller == [pc |-> "idle", product |-> Null, assets |-> <<>>, force |-> {},
               pending |-> Null, obj |-> Null]

NoReserve == [kind |-> "none", job |-> Null, product |-> Null,
              pre_assets |-> <<>>, pre_force |-> {},
              req_assets |-> <<>>, req_force |-> {}]

\* no thread has called reserve() yet
QuotaAtRest ==
    /\ quota_file = EmptyData
    /\ today = 1
    /\ quota_lock = [o \in QuotaObjs |-> FALSE]
    /\ quota_of = [t \in Threads |-> t]
    /\ daily_limit = 0
    /\ reserve = [t \in Threads |-> IdleReserve]
    /\ accepted = [d \in Days |-> 0]
    /\ ncalls = 0

\* the settings and the product a ProductAssetBot can be given
BotConfigs ==
    [allow_placeholders : BOOLEAN, google_search : BOOLEAN, serper_search : BOOLEAN,
     max_tries : 0..MaxTries, local_search_enabled : BOOLEAN,
     template : {NoUrl} \cup Urls, nqueries : 0..MaxQueries]

\* the defaults: no search client configured, no template, placeholders refused
DefaultBot ==
    [allow_placeholders |-> FALSE, google_search |-> FALSE, serper_search |-> FALSE,
     max_tries |-> 1, local_search_enabled |-> FALSE, template |-> NoUrl,
     nqueries |-> 0]

\* ensure_image has not been called yet
ImageAtRest ==
    /\ bot = DefaultBot
    /\ image = IdleImage
    /\ product_image = NewProduct
    /\ nimage = 0
    /\ looked_local = FALSE
    /\ downloaded = {}

Init ==
    /\ products = Products
    /\ jobs = <<>>
    /\ worker = Null
    /\ started = {}
    /\ queue = [w \in WorkerIds |-> <<>>]
    /\ run = [c \in Ctx |-> IdleRun]
    /\ inline_mode \in Modes
    /\ caller = [k \in Callers |-> IdleCaller]
    /\ nreq = 0
    /\ lastReserve = NoReserve
    /\ enqOrder = <<>>
    /\ procOrder = <<>>
    /\ doneSet = {}
    /\ invoked = {}
    /\ QuotaAtRest
    /\ ImageAtRest
    /\ ExtraAtRest


(* ------------------------------- callers ------------------------------- *)

\* the worker id a newly constructed ProductAssetJobWorker gets
FreshWorker ==
    IF started = WorkerIds THEN worker
    ELSE CHOOSE w \in WorkerIds \ started : \A v \in WorkerIds \ started : w <= v

\* Command.handle after a job was created: run inline, enqueue for the
\* worker thread (enqueue_product_asset_job), or hand over to the task queue
Dispatch(jid, p, assets, force, mode) ==
    CASE mode = "inline" ->
           /\ run' = [run EXCEPT ![Inline] = BeginRun(jid, <<p>>, assets, force, 0)]
           /\ UNCHANGED <<worker, started, queue, enqOrder>>
      [] mode = "task" ->
           /\ run' = [run EXCEPT ![Task] = BeginRun(jid, <<p>>, assets, force, 0)]
           /\ UNCHANGED <<worker, started, queue, enqOrder>>
      [] mode = "worker" ->
           LET w == GetProductAssetWorker(worker, FreshWorker)
           IN /\ worker' = w
              /\ started' = started \cup {w}
              /\ queue' = [queue EXCEPT ![w] = QueuePut(@, Entry(jid, <<p>>, assets, force))]
              /\ enqOrder' = Append(enqOrder, jid)
              /\ UNCHANGED run

\* the thread that runs a job in this mode can take one: the command's own
\* thread for an inline run, the task queue's worker process for a task;
\* enqueueing for the worker thread never waits
ModeFree(mode) ==
    /\ mode = "inline" => run[Inline].pc \in FreePcs
    /\ mode = "task" => run[Task].pc \in FreePcs

\* reserve_product_asset_job after the lookup returned pend (in memory: obj),
\* followed by Command.handle's "if not created: continue" / dispatch
ReserveAndDispatch(p, assets, force, mode, pend, obj) ==
    IF pend # Null
    THEN /\ jobs' = [jobs EXCEPT ![pend] = MergeJob(@, obj, assets, force)]
         /\ lastReserve' = [kind |-> "merge", job |-> pend, product |-> p,
                            pre_assets |-> obj.assets, pre_force |-> obj.force,
                            req_assets |-> assets, req_force |-> force]
         /\ UNCHANGED <<worker, started, queue, enqOrder, run>>
    ELSE /\ ModeFree(mode)
         /\ jobs' = Append(jobs, NewJob(p, "batch", assets, force))
         /\ lastReserve' = [kind |-> "create", job |-> Len(jobs) + 1, product |-> p,
                            pre_assets |-> <<>>, pre_force |-> {},
                            req_assets |-> assets, req_force |-> force]
         /\ Dispatch(Len(jobs) + 1, p, assets, force, mode)

\* one iteration of Command.handle with reserve_product_asset_job running
\* without interference
Request(p, assets, force) ==
    /\ nreq < MaxRequests
    /\ p \in products
    /\ nreq' = nreq + 1
    /\ LET pend == PendingJob(jobs, p)
       IN ReserveAndDispatch(p, assets, force, inline_mode, pend,
                             IF pend = Null THEN Null ELSE jobs[pend])
    /\ UNCHANGED <<botVars, inline_mode, products, caller, procOrder, doneSet, invoked>>

\* reserve_product_asset_job, first statement: get_pending_product_asset_job
ReserveLookup(k, p, assets, force) ==
    /\ caller[k].pc = "idle"
    /\ nreq < MaxRequests
    /\ p \in products
    /\ nreq' = nreq + 1
    /\ LET pend == PendingJob(jobs, p)
       IN caller' = [caller EXCEPT ![k] =
              [pc |-> "looked", product |-> p, assets |-> assets, force |-> force,
               pending |-> pend, obj |-> IF pend = Null THEN Null ELSE jobs[pend]]]
    /\ UNCHANGED <<botVars, inline_mode, products, jobs, worker, started, queue, run,
                   lastReserve, enqOrder, procOrder, doneSet, invoked>>

\* reserve_product_asset_job, the rest: merge into the job found, or create
ReserveFinish(k) ==
    /\ caller[k].pc = "looked"
    /\ ReserveAndDispatch(caller[k].product, caller[k].assets, caller[k].force, inline_mode,
                          caller[k].pending, caller[k].obj)
    /\ caller' = [caller EXCEPT ![k] = IdleCaller]
    /\ UNCHANGED <<botVars, inline_mode, products, nreq, procOrder, doneSet, invoked>>

\* a product is deleted; ProductAssetJob.product is on_delete=SET_NULL
DeleteProduct(p) ==
    /\ p \in products
    /\ products' = products \ {p}
    /\ jobs' = [j \in 1..Len(jobs) |->
                  IF jobs[j].product = p THEN [jobs[j] EXCEPT !.product = Null] ELSE jobs[j]]
    /\ UNCHANGED <<botVars, inline_mode, worker, started, queue, run, caller, nreq,
                   lastReserve, enqOrder, procOrder, doneSet, invoked>>

(* --------------------------- execution contexts ------------------------ *)

IsWorker(c) == c[1] = "worker"

\* the context after run_product_asset_bot returned: the worker's _process
\* goes on with the entry's next product id or, after task_done, blocks on
\* the queue again; the command and the task are finished
RunAfterReturn(c, r) ==
    IF IsWorker(c)
    THEN IF r.todo # <<>> THEN BeginRun(r.job_id, r.todo, r.assets, r.force, 0)
         ELSE IdleRun
    ELSE [r EXCEPT !.pc = "done"]

DoneAfterReturn(c, r) ==
    IF IsWorker(c) /\ r.todo = <<>> THEN doneSet \cup {r.job_id} ELSE doneSet

\* the context after an exception left run_product_asset_bot:
\*   ProductAssetJobWorker.run: except Exception, then the loop continues
\*   Command.handle (inline): nothing catches it, the command ends
\*   generate_product_assets: retried, or failed after max_retries retries
RunAfterRaise(c, r) ==
    IF IsWorker(c) THEN [IdleRun EXCEPT !.pc = AfterExcept]
    ELSE IF c = Task /\ ShouldRetry(r.retries)
         THEN BeginRun(r.job_id, <<r.product_id>>, r.assets, r.force, r.retries + 1)
         ELSE [r EXCEPT !.pc = "crashed"]

\* ProductAssetJobWorker.run: only the worker thread marks the job failed
JobsAfterRaise(c, r) ==
    IF IsWorker(c)
    THEN [jobs EXCEPT ![r.job_id] = MarkJobFailed(@, "Erreur interne inattendue.", Now(@))]
    ELSE jobs

DoneAfterRaise(c, r) ==
    IF IsWorker(c) THEN doneSet \cup {r.job_id} ELSE doneSet

\* ProductAssetJobWorker.run: entry = self._queue.get(), then _process starts
WorkerGet(w) ==
    /\ w \in started
    /\ run[WorkerCtx(w)].pc = "idle"
    /\ queue[w] # <<>>
    /\ LET entry == Head(queue[w])
       IN /\ run' = [run EXCEPT ![WorkerCtx(w)] =
                 BeginRun(entry.job_id, entry.product_ids, entry.assets, entry.force, 0)]
          /\ procOrder' = Append(procOrder, entry.job_id)
    /\ queue' = [queue EXCEPT ![w] = Tail(@)]
    /\ UNCHANGED <<botVars, inline_mode, products, jobs, worker, started, caller, nreq,
                   lastReserve, enqOrder, doneSet, invoked>>

(* ------------------------- run_product_asset_bot ----------------------- *)

\* load job and product; a missing product finalizes the job failed and
\* returns, otherwise _start_job
RunBegin(c) ==
    /\ run[c].pc = "begin"
    /\ LET jid == run[c].job_id
       IN IF ~ProductExists(products, run[c].product_id)
          THEN /\ jobs' = [jobs EXCEPT ![jid] =
                     FinalizeJob(@, FALSE, "Produit introuvable.", FALSE, FALSE, {},
                                 WARNING, Now(@))]
               /\ run' = [run EXCEPT ![c] = RunAfterReturn(c, @)]
               /\ doneSet' = DoneAfterReturn(c, run[c])
          ELSE /\ jobs' = [jobs EXCEPT ![jid] = StartJob(@, Now(@))]
               /\ run' = [run EXCEPT ![c].pc = "started"]
               /\ UNCHANGED doneSet
    /\ UNCHANGED <<botVars, inline_mode, products, worker, started, queue, caller, nreq,
                   lastReserve, enqOrder, procOrder, invoked>>

\* bot.ensure_assets returns a change-set
EnsureAssetsReturns(c, changes) ==
    /\ run[c].pc = "started"
    /\ changes \in {{}, PossibleChanges(run[c].assets)}
    /\ run' = [run EXCEPT ![c].pc = "generated", ![c].changes = changes]
    /\ invoked' = invoked \cup {run[c].job_id}
    /\ UNCHANGED <<botVars, inline_mode, products, jobs, worker, started, queue, caller, nreq,
                   lastReserve, enqOrder, procOrder, doneSet>>

\* bot.ensure_assets raises (an external call or a database write fails)
EnsureAssetsRaises(c) ==
    /\ run[c].pc = "started"
    /\ run' = [run EXCEPT ![c] = RunAfterRaise(c, @)]
    /\ jobs' = JobsAfterRaise(c, run[c])
    /\ doneSet' = DoneAfterRaise(c, run[c])
    /\ invoked' = invoked \cup {run[c].job_id}
    /\ UNCHANGED <<botVars, inline_mode, products, worker, started, queue, caller, nreq,
                   lastReserve, enqOrder, procOrder>>

\* product.save(update_fields=...) and _finalize_job(success=True); saving
\* with update_fields raises when the product row is gone
RunFinalize(c) ==
    /\ run[c].pc = "generated"
    /\ LET jid == run[c].job_id
       IN IF run[c].changes # {} /\ ~ProductExists(products, run[c].product_id)
          THEN /\ run' = [run EXCEPT ![c] = RunAfterRaise(c, @)]
               /\ jobs' = JobsAfterRaise(c, run[c])
               /\ doneSet' = DoneAfterRaise(c, run[c])
          ELSE /\ jobs' = [jobs EXCEPT ![jid] =
                     FinalizeJob(@, TRUE, "done",
                                 "description_changed" \in run[c].changes,
                                 "image_changed" \in run[c].changes,
                                 run[c].changes, INFO, Now(@))]
               /\ run' = [run EXCEPT ![c] = RunAfterReturn(c, @)]
               /\ doneSet' = DoneAfterReturn(c, run[c])
    /\ UNCHANGED <<botVars, inline_mode, products, worker, started, queue, caller, nreq,
                   lastReserve, enqOrder, procOrder, invoked>>

(* --------------------------- _DailyQuota.reserve ------------------------ *)

\* a thread calls self.quota.reserve() on the _DailyQuota of its client:
\* "if self.daily_limit <= 0: return False", then today = date.today()
ReserveCall(t) ==
    /\ reserve[t].pc = "idle"
    /\ ncalls < MaxCalls
    /\ ncalls' = ncalls + 1
    /\ reserve' = [reserve EXCEPT ![t] =
           IF daily_limit <= 0 THEN IdleReserve
           ELSE [IdleReserve EXCEPT !.pc = "lock", !.today = today]]
    /\ UNCHANGED <<quota_file, today, quota_lock, quota_of, daily_limit, accepted>>
    /\ UNCHANGED <<jobVars, imageVars, extraVars>>

\* with self._lock: the lock of this _DailyQuota object
ReserveLock(t) ==
    /\ reserve[t].pc = "lock"
    /\ ~quota_lock[quota_of[t]]
    /\ quota_lock' = [quota_lock EXCEPT ![quota_of[t]] = TRUE]
    /\ reserve' = [reserve EXCEPT ![t].pc = "read"]
    /\ UNCHANGED <<quota_file, today, quota_of, daily_limit, accepted, ncalls>>
    /\ UNCHANGED <<jobVars, imageVars, extraVars>>

\* data = self._read(), the date reset and the limit test; a reached limit
\* leaves the with block and returns False
ReserveRead(t, ok) ==
    /\ reserve[t].pc = "read"
    /\ LET data == QuotaToday(QuotaRead(quota_file, ok), reserve[t].today)
       IN IF QuotaReached(data, daily_limit)
          THEN /\ reserve' = [reserve EXCEPT ![t] = IdleReserve]
               /\ quota_lock' = [quota_lock EXCEPT ![quota_of[t]] = FALSE]
          ELSE /\ reserve' = [reserve EXCEPT ![t].pc = "write",
                                             ![t].data = QuotaIncrement(data)]
               /\ UNCHANGED quota_lock
    /\ UNCHANGED <<quota_file, today, quota_of, daily_limit, accepted, ncalls>>
    /\ UNCHANGED <<jobVars, imageVars, extraVars>>

\* self._write(data), the end of the with block, return True
ReserveWrite(t, ok) ==
    /\ reserve[t].pc = "write"
    /\ quota_file' = QuotaWrite(quota_file, reserve[t].data, ok)
    /\ quota_lock' = [quota_lock EXCEPT ![quota_of[t]] = FALSE]
    /\ reserve' = [reserve EXCEPT ![t] = [IdleReserve EXCEPT !.result = TRUE]]
    /\ accepted' = [accepted EXCEPT ![reserve[t].today] = @ + 1]
    /\ UNCHANGED <<today, quota_of, daily_limit, ncalls>>
    /\ UNCHANGED <<jobVars, imageVars, extraVars>>

\* midnight: date.today() changes
NextDay ==
    /\ today < MaxDays
    /\ today' = today + 1
    /\ UNCHANGED <<quota_file, quota_lock, quota_of, daily_limit, reserve, accepted, ncalls>>
    /\ UNCHANGED <<jobVars, imageVars, extraVars>>

(* --------------------------- ensure_image ------------------------------- *)

\* the queries one run of _find_search_image goes through
Slice == QueriesToTry(Queries(bot.nqueries), Tries(bot.max_tries))

\* ensure_image(product, force, image_field=...): skip a field that is set,
\* not forced and not flagged as placeholder
EnsureImage(force, image_field) ==
    /\ image.pc = "idle"
    /\ nimage < MaxImageCalls
    /\ nimage' = nimage + 1
    /\ image' = IF AlreadyHasImage(product_image, image_field, force) THEN IdleImage
                ELSE [IdleImage EXCEPT !.pc = "local", !.force = force,
                                       !.image_field = image_field]
    /\ UNCHANGED <<bot, product_image, looked_local, downloaded>>
    /\ UNCHANGED <<jobVars, quotaVars, extraVars>>

\* local_path = self._find_local_image(product); a file found is applied and
\* ensure_image returns; otherwise _find_search_image starts its loop
FindLocalImage(found) ==
    /\ image.pc = "local"
    /\ looked_local' = TRUE
    /\ IF found
       THEN LET applied == ApplyLocalImage(product_image, image.image_field)
            IN /\ product_image' =
                     IF applied
                     THEN [product_image EXCEPT
                              ![image.image_field] = LocalImage,
                              ![PlaceholderField(image.image_field)] = FALSE]
                     ELSE product_image
               /\ image' = [IdleImage EXCEPT !.result = applied]
       ELSE LET lp == LoopPoint(bot, Slice, 1, Primary)
            IN /\ image' = [image EXCEPT !.pc = lp.pc, !.qi = lp.qi]
               /\ UNCHANGED product_image
    /\ UNCHANGED <<bot, nimage, downloaded>>
    /\ UNCHANGED <<jobVars, quotaVars, extraVars>>

\* one provider call of the loop: url = <client>.search_image(query), a URL
\* ends the search, no URL goes on to the next provider or query
SearchImage(provider, url) ==
    /\ image.pc = provider
    /\ LET call == [provider |-> provider, query |-> Slice[image.qi], url |-> url]
           lp == IF provider = Primary
                 THEN LoopPoint(bot, Slice, image.qi, Secondary)
                 ELSE LoopPoint(bot, Slice, image.qi + 1, Primary)
       IN image' = IF SearchStops(url)
                   THEN [image EXCEPT !.pc = "resolve", !.url = url,
                                      !.source = provider,
                                      !.calls = Append(@, call)]
                   ELSE [image EXCEPT !.pc = lp.pc, !.qi = lp.qi,
                                      !.calls = Append(@, call)]
    /\ UNCHANGED <<bot, product_image, nimage, looked_local, downloaded>>
    /\ UNCHANGED <<jobVars, quotaVars, extraVars>>

\* self.google_search.search_image(query)
GoogleSearchImage(url) == SearchImage("google", url)

\* self.serper_search.search_image(query)
SerperSearchImage(url) == SearchImage("serper", url)

\* ensure_image after _find_search_image returned: the template URL when the
\* search found none, no URL at all, the placeholder test
ResolveImageUrl ==
    /\ image.pc = "resolve"
    /\ LET image_url == ImageUrl(image.url, bot.template)
           image_source == IF image.url # NoUrl THEN image.source
                           ELSE IF image_url # NoUrl THEN "template" ELSE "none"
       IN image' = IF image_url = NoUrl \/ PlaceholderBlocked(image_url, bot.allow_placeholders)
                   THEN IdleImage
                   ELSE [image EXCEPT !.pc = "download", !.url = image_url,
                                      !.source = image_source, !.calls = <<>>]
    /\ UNCHANGED <<bot, product_image, nimage, looked_local, downloaded>>
    /\ UNCHANGED <<jobVars, quotaVars, extraVars>>

\* self.image_session.get(image_url): a failed request or a payload that is
\* not an image returns False; otherwise field.save, the placeholder flag,
\* and run_product_asset_bot saves both fields
DownloadImage(ok) ==
    /\ image.pc = "download"
    /\ downloaded' = downloaded \cup {image.url}
    /\ product_image' =
          IF ok
          THEN [product_image EXCEPT
                   ![image.image_field] = UrlImage(image.url),
                   ![PlaceholderField(image.image_field)] = IsPlaceholderUrl(image.url)]
          ELSE product_image
    /\ image' = [IdleImage EXCEPT !.result = ok]
    /\ UNCHANGED <<bot, nimage, looked_local>>
    /\ UNCHANGED <<jobVars, quotaVars, extraVars>>

(* ---------------------- run_auto_assign_categories ---------------------- *)

\* rules, default_category = _load_rules(rules_path); CommandError when
\* there is no rule at all
ClassifyLoadRules ==
    /\ classify.pc = "load"
    /\ LET categories == CategoriesAfterLoad(classify.file, classify.categories)
           rules == LoadRules(classify.file, categories)
       IN classify' = [classify EXCEPT !.categories = categories, !.rules = rules,
                                       !.pc = IF rules = <<>> THEN "error" ELSE "rules"]
    /\ UNCHANGED <<jobVars, quotaVars, imageVars, gen, pdf>>

\* rule = _pick_best_rule(rules, raw_text) for the product
ClassifyPickRule ==
    /\ classify.pc = "rules"
    /\ LET rule == PickBestRule(classify.rules, classify.tokens)
           call == [tier |-> "rules",
                    result |-> IF rule = 0 THEN None ELSE classify.rules[rule].category]
       IN classify' =
             IF RuleMatched(rule)
             THEN [classify EXCEPT !.pc = "assign", !.rule = rule,
                                   !.target = classify.rules[rule].category,
                                   !.calls = Append(@, call)]
             ELSE [classify EXCEPT !.pc = "brand", !.rule = rule,
                                   !.calls = Append(@, call)]
    /\ UNCHANGED <<jobVars, quotaVars, imageVars, gen, pdf>>

\* brand_category = _brand_override_category(product, candidate_categories)
ClassifyBrand(result) ==
    /\ classify.pc = "brand"
    /\ result \in CandidateCategories(classify.categories) \cup {None}
    /\ classify' = [classify EXCEPT
           !.pc = IF result # None THEN "assign" ELSE "data",
           !.target = result,
           !.calls = Append(@, [tier |-> "brand", result |-> result])]
    /\ UNCHANGED <<jobVars, quotaVars, imageVars, gen, pdf>>

\* data_category = _data_driven_category(product, category_hints, ...); after
\* no match "elif use_ai and ai_generator and candidate_categories", else
\* the product is unmatched
ClassifyData(result) ==
    /\ classify.pc = "data"
    /\ result \in CandidateCategories(classify.categories) \cup {None}
    /\ classify' = [classify EXCEPT
           !.pc = IF result # None THEN "assign"
                  ELSE IF classify.use_ai /\ CandidateCategories(classify.categories) # {}
                       THEN "mistral" ELSE "done",
           !.target = result,
           !.calls = Append(@, [tier |-> "data", result |-> result])]
    /\ UNCHANGED <<jobVars, quotaVars, imageVars, gen, pdf>>

\* suggested_category = _ai_pick_category(...), looked up in categories_by_name
ClassifyAi(result) ==
    /\ classify.pc = "mistral"
    /\ result \in CandidateCategories(classify.categories) \cup {None}
    /\ classify' = [classify EXCEPT
           !.pc = IF result # None THEN "assign" ELSE "done",
           !.target = result,
           !.calls = Append(@, [tier |-> "mistral", result |-> result])]
    /\ UNCHANGED <<jobVars, quotaVars, imageVars, gen, pdf>>

\* the product already has the category: skipped; dry_run: the change is
\* reported; otherwise product.category is saved
ClassifyAssign ==
    /\ classify.pc = "assign"
    /\ classify' =
          IF classify.category = classify.target
          THEN [classify EXCEPT !.pc = "done"]
          ELSE IF classify.dry_run
               THEN [classify EXCEPT !.pc = "done",
                                     !.changes = Append(@, classify.target)]
               ELSE [classify EXCEPT !.pc = "done", !.category = classify.target]
    /\ UNCHANGED <<jobVars, quotaVars, imageVars, gen, pdf>>

(* --------------------------- ensure_descriptions ------------------------ *)

\* ensure_descriptions(product, force): short_desc and long_desc are what
\* generate_text returns for the two prompts (empty: None)
EnsureDescriptions(force, short_desc, long_desc) ==
    /\ gen.ngen < MaxGenerations
    /\ LET changes == DescriptionChanges(gen, force, short_desc, long_desc)
       IN gen' = [gen EXCEPT
             !.short_description =
                 IF "short_description_changed" \in changes THEN short_desc ELSE @,
             !.long_description =
                 IF "long_description_changed" \in changes THEN long_desc ELSE @,
             !.description = IF "description_changed" \in changes THEN long_desc ELSE @,
             !.assets = IF changes # {} THEN UpdateOrCreate(@, "description") ELSE @,
             !.ngen = @ + 1,
             !.last = [kind |-> "description", force |-> force, changes |-> changes,
                       calls |-> DescriptionCalls(gen, force)]]
    /\ UNCHANGED <<jobVars, quotaVars, imageVars, classify, pdf>>

\* ensure_pdf_brochures(product, force): a ProductBrochure and a ProductAsset
\* row are created; excerpt is whether the datasheet file yields a text to
\* summarise
EnsurePdfBrochures(force, excerpt) ==
    /\ gen.ngen < MaxGenerations
    /\ LET made == gen.has_datasheet /\ (gen.brochures = 0 \/ force)
       IN gen' = [gen EXCEPT
             !.brochures = IF made THEN @ + 1 ELSE @,
             !.assets = IF made THEN CreateAsset(@, "pdf") ELSE @,
             !.ngen = @ + 1,
             !.last = [kind |-> "pdf", force |-> force,
                       changes |-> IF made THEN {"pdf_changed"} ELSE {},
                       calls |-> IF made /\ gen.text_generator /\ excerpt THEN 1 ELSE 0]]
    /\ UNCHANGED <<jobVars, quotaVars, imageVars, classify, pdf>>

\* ensure_video_links(product, force): links is whether _build_video_links
\* returns any
EnsureVideoLinks(force, links) ==
    /\ gen.ngen < MaxGenerations
    /\ LET made == (~gen.video_links \/ force) /\ links
       IN gen' = [gen EXCEPT
             !.video_links = IF made THEN TRUE ELSE @,
             !.assets = IF made THEN UpdateOrCreate(@, "video") ELSE @,
             !.ngen = @ + 1,
             !.last = [kind |-> "video", force |-> force,
                       changes |-> IF made THEN {"videos_changed"} ELSE {}, calls |-> 0]]
    /\ UNCHANGED <<jobVars, quotaVars, imageVars, classify, pdf>>

(* ------------------------------ pick_best_pdf --------------------------- *)

\* best = pick_best_pdf(items, model)
PickBestPdfCall ==
    /\ pdf.pc = "idle"
    /\ pdf' = [pdf EXCEPT !.pc = "done", !.result = PickBestPdf(pdf.items)]
    /\ UNCHANGED <<jobVars, quotaVars, imageVars, classify, gen>>

(* ---------------------------- specifications --------------------------- *)

ChangeSets == SUBSET {"description_changed", "image_changed"}

\* the steps of the worker threads
WorkerStep ==
    \/ \E w \in WorkerIds : WorkerGet(w)
    \/ \E w \in WorkerIds : RunBegin(WorkerCtx(w))
    \/ \E w \in WorkerIds : EnsureAssetsRaises(WorkerCtx(w))
    \/ \E w \in WorkerIds, changes \in ChangeSets : EnsureAssetsReturns(WorkerCtx(w), changes)
    \/ \E w \in WorkerIds : RunFinalize(WorkerCtx(w))

Execute ==
    \/ \E w \in WorkerIds : WorkerGet(w)
    \/ \E c \in Ctx : RunBegin(c)
    \/ \E c \in Ctx, changes \in ChangeSets : EnsureAssetsReturns(c, changes)
    \/ \E c \in Ctx : EnsureAssetsRaises(c)
    \/ \E c \in Ctx : RunFinalize(c)
    \/ \E p \in Products : DeleteProduct(p)

\* callers run reserve_product_asset_job one at a time
Next ==
    \/ \E p \in Products, req \in Requests : Request(p, req.assets, req.force)
    \/ Execute

Spec == Init /\ [][Next]_vars

\* callers run reserve_product_asset_job concurrently
NextConc ==
    \/ \E k \in Callers, p \in Products, req \in Requests :
          ReserveLookup(k, p, req.assets, req.force)
    \/ \E k \in Callers : ReserveFinish(k)
    \/ Execute

SpecConc == Init /\ [][NextConc]_vars

\* the command enqueues for the worker thread (no --inline)
InitWorker == Init /\ inline_mode = "worker"

\* the worker thread is scheduled, and the calls it makes return or raise
FairSpec == InitWorker /\ [][Next]_vars /\ WF_vars(WorkerStep)


\* no job was requested: the state of Init with an inline command
JobsAtRest ==
    /\ products = Products
    /\ jobs = <<>>
    /\ worker = Null
    /\ started = {}
    /\ queue = [w \in WorkerIds |-> <<>>]
    /\ run = [c \in Ctx |-> IdleRun]
    /\ inline_mode = "inline"
    /\ caller = [k \in Callers |-> IdleCaller]
    /\ nreq = 0
    /\ lastReserve = NoReserve
    /\ enqOrder = <<>>
    /\ procOrder = <<>>
    /\ doneSet = {}
    /\ invoked = {}

\* threads of one process call reserve() of one provider; each thread uses
\* the _DailyQuota of the ProductAssetBot it was given or built
InitQuota ==
    /\ JobsAtRest
    /\ ImageAtRest
    /\ ExtraAtRest
    /\ quota_file = EmptyData
    /\ today = 1
    /\ quota_lock = [o \in QuotaObjs |-> FALSE]
    /\ quota_of \in [Threads -> QuotaObjs]
    /\ daily_limit \in 0..MaxLimit
    /\ reserve = [t \in Threads |-> IdleReserve]
    /\ accepted = [d \in Days |-> 0]
    /\ ncalls = 0

NextQuota ==
    \/ \E t \in Threads : ReserveCall(t)
    \/ \E t \in Threads : ReserveLock(t)
    \/ \E t \in Threads, ok \in BOOLEAN : ReserveRead(t, ok)
    \/ \E t \in Threads, ok \in BOOLEAN : ReserveWrite(t, ok)
    \/ NextDay

SpecQuota == InitQuota /\ [][NextQuota]_vars

\* one thread calls reserve() again and again
NextQuotaSeq ==
    \/ ReserveCall(MainThread)
    \/ ReserveLock(MainThread)
    \/ \E ok \in BOOLEAN : ReserveRead(MainThread, ok)
    \/ \E ok \in BOOLEAN : ReserveWrite(MainThread, ok)
    \/ NextDay

SpecQuotaSeq == InitQuota /\ [][NextQuotaSeq]_vars

\* ensure_image is called for one product, one call after the other
InitImage ==
    /\ JobsAtRest
    /\ QuotaAtRest
    /\ ExtraAtRest
    /\ bot \in BotConfigs
    /\ image = IdleImage
    /\ product_image = NewProduct
    /\ nimage = 0
    /\ looked_local = FALSE
    /\ downloaded = {}

NextImage ==
    \/ \E force \in BOOLEAN, image_field \in ImageFields : EnsureImage(force, image_field)
    \/ \E found \in BOOLEAN : FindLocalImage(found)
    \/ \E url \in SearchResults : GoogleSearchImage(url)
    \/ \E url \in SearchResults : SerperSearchImage(url)
    \/ ResolveImageUrl
    \/ \E ok \in BOOLEAN : DownloadImage(ok)

SpecImage == InitImage /\ [][NextImage]_vars


\* the rules files, category tables and product texts of a classification run
Files ==
    LET RuleItems == [category : Names, keywords : {<<>>, <<"camera">>, <<"alarme">>}]
        RuleSeqs == UNION {[1..n -> RuleItems] : n \in 0..MaxRules}
    IN {[exists |-> FALSE, rules |-> <<>>]} \cup {[exists |-> TRUE, rules |-> r] : r \in RuleSeqs}

\* run_auto_assign_categories is called for one product
InitClassify ==
    /\ JobsAtRest
    /\ QuotaAtRest
    /\ ImageAtRest
    /\ gen = IdleGen
    /\ pdf = IdlePdf
    /\ \E f \in Files,
          cs \in {{}, {"Alarme", "Camera"}, {"Alarme", "Camera", "Non Classe"}},
          t \in {{}, {"alarme", "camera"}},
          d \in BOOLEAN, a \in BOOLEAN :
          \E c \in cs \cup {None} :
             classify = [IdleClassify EXCEPT !.pc = "load", !.file = f,
                                             !.categories = cs, !.categories0 = cs,
                                             !.tokens = t, !.category = c,
                                             !.category0 = c, !.dry_run = d,
                                             !.use_ai = a]

NextClassify ==
    \/ ClassifyLoadRules
    \/ ClassifyPickRule
    \/ \E result \in Names \cup {None} : ClassifyBrand(result)
    \/ \E result \in Names \cup {None} : ClassifyData(result)
    \/ \E result \in Names \cup {None} : ClassifyAi(result)
    \/ ClassifyAssign

SpecClassify == InitClassify /\ [][NextClassify]_vars

\* asset generators are called for one product, one call after the other
InitGen ==
    /\ JobsAtRest
    /\ QuotaAtRest
    /\ ImageAtRest
    /\ classify = IdleClassify
    /\ pdf = IdlePdf
    /\ \E d \in Texts, s \in Texts, l \in Texts, tg \in BOOLEAN, ds \in BOOLEAN :
          gen = [IdleGen EXCEPT !.description = d, !.short_description = s,
                                !.long_description = l, !.text_generator = tg,
                                !.has_datasheet = ds]

NextGen ==
    \/ \E force \in BOOLEAN, short_desc \in Texts, long_desc \in Texts :
          EnsureDescriptions(force, short_desc, long_desc)
    \/ \E force \in BOOLEAN, excerpt \in BOOLEAN : EnsurePdfBrochures(force, excerpt)
    \/ \E force \in BOOLEAN, links \in BOOLEAN : EnsureVideoLinks(force, links)

SpecGen == InitGen /\ [][NextGen]_vars

\* pick_best_pdf is called with a list of search results
InitPdf ==
    /\ JobsAtRest
    /\ QuotaAtRest
    /\ ImageAtRest
    /\ classify = IdleClassify
    /\ gen = IdleGen
    /\ \E items \in UNION {[1..n -> Items] : n \in 0..MaxItems} :
          pdf = [IdlePdf EXCEPT !.items = items]

NextPdf == PickBestPdfCall

SpecPdf == InitPdf /\ [][NextPdf]_vars


(* -------------------------------- claims ------------------------------- *)

JobIds == 1..Len(jobs)

\* the jobs of product p that are queued or running
InFlight(p) == {j \in JobIds : jobs[j].product = p /\ jobs[j].status \in {QUEUED, RUNNING}}

\* C1: after any sequence of reserve, start, finalize and worker-failure
\* operations, no product has two jobs that are queued or running
C1_AtMostOneInFlight == \A p \in Products : Cardinality(InFlight(p)) <= 1

\* a product whose earlier job ended has a new job in flight
C1_Witness ==
    \E i, j \in JobIds :
        /\ i < j
        /\ jobs[i].product = jobs[j].product
        /\ jobs[i].product # Null
        /\ jobs[i].status \in {SUCCESS, FAILED}
        /\ jobs[j].status \in {QUEUED, RUNNING}

\* C2: when callers run reserve_product_asset_job concurrently, with lookup
\* and creation interleaved, once all of them are back at most one queued or
\* running job exists per product
C2_ConcurrentReserveAtMostOne ==
    (\A k \in Callers : caller[k].pc = "idle")
        => \A p \in Products : Cardinality(InFlight(p)) <= 1

\* C3: after a request is merged into a pending job, the job's asset kinds
\* are the union of its previous kinds and the requested ones
C3_MergeUnionsAssets ==
    lastReserve.kind = "merge"
        => SeqToSet(jobs[lastReserve.job].assets)
             = SeqToSet(lastReserve.pre_assets) \cup SeqToSet(lastReserve.req_assets)

\* C4: after a request is merged into a pending job, each of the six force
\* flags is the OR of its previous value and the requested value, and no step
\* ever resets a force flag of a job from true to false
C4_MergeOrsForce ==
    /\ [](lastReserve.kind = "merge"
            => \A f \in ForceFlags :
                  (f \in jobs[lastReserve.job].force)
                     <=> (f \in lastReserve.pre_force \/ f \in lastReserve.req_force))
    /\ [][\A j \in JobIds : jobs[j].force \subseteq jobs'[j].force]_vars

\* a merge into a job that had a flag the request lacks, and lacked a flag
\* the request has
C4_Witness ==
    /\ lastReserve.kind = "merge"
    /\ lastReserve.pre_force \ lastReserve.req_force # {}
    /\ lastReserve.req_force \ lastReserve.pre_force # {}

\* C5: a job's status changes only along queued -> running, running ->
\* success and running -> failed (so success and failed are never left)
C5_StatusTransitions ==
    [][\A j \in JobIds :
          \/ jobs'[j].status = jobs[j].status
          \/ <<jobs[j].status, jobs'[j].status>>
                \in {<<QUEUED, RUNNING>>, <<RUNNING, SUCCESS>>, <<RUNNING, FAILED>>}]_vars

\* C6: every job that is success or failed has finished_at set and
\* processed_products = 1
C6_TerminalJobIsCounted ==
    \A j \in JobIds :
        jobs[j].status \in {SUCCESS, FAILED}
            => jobs[j].finished_at # Null /\ jobs[j].processed_products = 1

\* C7: a run that finds its product missing finalizes the job failed with the
\* product-not-found message and a warning log entry, calls no asset
\* generator, and returns normally: the context is finished or back at its
\* queue, neither crashed nor retrying
C7_MissingProduct ==
    [][\A c \in Ctx :
          (run[c].pc = "begin" /\ run[c].product_id \notin products /\ run'[c] # run[c])
             => LET j == run[c].job_id
                IN /\ jobs'[j].status = FAILED
                   /\ jobs'[j].last_message = "Produit introuvable."
                   /\ jobs'[j].log[Len(jobs'[j].log)]
                         = [message |-> "Produit introuvable.", level |-> WARNING]
                   /\ Len(jobs'[j].log) = Len(jobs[j].log) + 1
                   /\ invoked' = invoked
                   /\ run'[c].pc \in {"done", "idle"}]_vars

\* a job that failed on a missing product before any generator ran for it
C7_Witness ==
    \E j \in JobIds :
        /\ jobs[j].status = FAILED
        /\ jobs[j].last_message = "Produit introuvable."
        /\ j \notin invoked

\* C8: when the execution of a started job ends otherwise than by a
\* successful finalize, in any context (inline, worker thread, task after
\* its retries), the job is failed
C8_ExceptionEndsFailed ==
    [][\A c \in Ctx :
          (/\ run[c].pc \in {"started", "generated"}
           /\ run'[c].pc \in {"idle", "done", "crashed"}
           /\ jobs'[run[c].job_id].status # SUCCESS)
             => jobs'[run[c].job_id].status = FAILED]_vars

\* C9: when the processing of an entry raises, the worker marks the entry's
\* job failed and goes back to its queue, and every enqueued entry is
\* eventually dequeued and handled
C9_WorkerSurvivesFailure ==
    /\ [][\A w \in WorkerIds :
            (/\ run[WorkerCtx(w)].pc \in {"started", "generated"}
             /\ run'[WorkerCtx(w)].pc \notin {"started", "generated"}
             /\ jobs'[run[WorkerCtx(w)].job_id].status # SUCCESS)
               => /\ jobs'[run[WorkerCtx(w)].job_id].status = FAILED
                  /\ run'[WorkerCtx(w)].pc = "idle"]_vars
    /\ \A j \in 1..MaxRequests : (j \in SeqToSet(enqOrder)) ~> (j \in doneSet)

\* the worker handled an entry that raised and, after it, a later entry
C9_Witness ==
    \E i, j \in JobIds :
        /\ i < j
        /\ {i, j} \subseteq doneSet
        /\ jobs[i].last_message = "Erreur interne inattendue."
        /\ jobs[i].status = FAILED

IsPrefix(s, t) == Len(s) <= Len(t) /\ \A i \in 1..Len(s) : s[i] = t[i]

\* C10: entries are dequeued in the order they were enqueued, at most one
\* entry is being processed at any time, and a caller whose request creates
\* a job can enqueue it whatever the worker is doing
C10_FifoOneAtATime ==
    /\ IsPrefix(procOrder, enqOrder)
    /\ Cardinality({w \in WorkerIds : run[WorkerCtx(w)].pc # "idle"}) <= 1
    /\ \A p \in products, req \in Requests :
          (inline_mode = "worker" /\ nreq < MaxRequests /\ PendingJob(jobs, p) = Null)
             => ENABLED Request(p, req.assets, req.force)

\* an entry was enqueued while the worker was processing another one
C10_Witness ==
    \E w \in WorkerIds :
        /\ run[WorkerCtx(w)].pc \in {"started", "generated"}
        /\ queue[w] # <<>>
        /\ Len(enqOrder) = Len(procOrder) + Len(queue[w])

(* --------------------------- claims: daily quota ------------------------ *)

\* the count the usage file holds for day d
StoredCount(d) == IF quota_file.date = d THEN quota_file.count ELSE 0

NoReserveRunning == \A t \in Threads : reserve[t].pc = "idle"

InsideLock(t) == reserve[t].pc \in {"read", "write"}

\* C11: with a daily limit N > 0, a reserve() call returns accept exactly when
\* fewer than N calls of its day were accepted before it: the first N calls
\* of a day are accepted, every later call of that day is rejected, and a
\* new day starts again at 0.
C11_FirstNAccepted ==
    [][\A t \in Threads :
          (daily_limit > 0 /\ InsideLock(t) /\ reserve'[t].pc = "idle")
             => (reserve'[t].result <=> accepted[reserve[t].today] < daily_limit)]_vars

\* C12: concurrent callers of reserve() for one provider, each with the
\* ProductAssetBot it uses, are never inside the read-modify-write of the
\* counter at the same time, and no day has more accepted reservations than
\* the daily limit.
C12_ReserveMutuallyExclusive ==
    /\ \A s, t \in Threads : s # t => ~(InsideLock(s) /\ InsideLock(t))
    /\ \A d \in Days : accepted[d] <= daily_limit

\* C13: whenever no reserve() call is running, the count stored for today
\* equals the number of reservations accepted today: every accept has
\* persisted its increment.
C13_AcceptIsPersisted ==
    NoReserveRunning => StoredCount(today) = accepted[today]

(* ------------------------ claims: image search router ------------------- *)

Calls == image.calls

CallsOf(provider) == {i \in 1..Len(Calls) : Calls[i].provider = provider}

\* the host of the URL is one of the placeholder domains
HostInBlacklist(url) == url.host \in placeholder_domains

C15_SerperIsPrimary ==
    (bot.google_search /\ bot.serper_search)
       => \A i \in CallsOf("serper") :
             (Calls[i].url # NoUrl /\ Calls[i].query = 1)
                => /\ Len(Calls) = 1
                   /\ CallsOf("google") = {}
                   /\ image.pc = "resolve"
                   /\ image.source = "serper"
                   /\ image.url = Calls[i].url

C17_NoPlaceholderDownload ==
    ~bot.allow_placeholders
       => /\ \A url \in downloaded : ~HostInBlacklist(url)
          /\ \A f \in ImageFields :
                product_image[f].kind = "url" => ~HostInBlacklist(product_image[f].url)

\* C18: when placeholders are not allowed, the URL the router returns is
\* never on a placeholder domain: such a result counts as no result.
C18_RouterSkipsPlaceholder ==
    (image.pc = "resolve" /\ ~bot.allow_placeholders) => ~HostInBlacklist(image.url)

OtherField(f) == IF f = "image" THEN "pending_image" ELSE "image"

\* C19: an ensure_image call that changes the image leaves the placeholder
\* flag of the field it wrote true exactly when the stored image is from a
\* placeholder-domain URL accepted because placeholders are allowed (false
\* for a local file and for any other URL), and leaves the other field and
\* its flag as they were.
C19_PlaceholderFlag ==
    [][product_image' # product_image
          => LET f == image.image_field
                 g == OtherField(f)
             IN /\ product_image'[PlaceholderField(f)]
                      <=> /\ product_image'[f].kind = "url"
                          /\ HostInBlacklist(product_image'[f].url)
                          /\ bot.allow_placeholders
                /\ product_image'[g] = product_image[g]
                /\ product_image'[PlaceholderField(g)] = product_image[PlaceholderField(g)]]_vars

\* C20: with local-file search disabled, ensure_image never looks for a local
\* file and no image field is set to a local file.
C20_NoLocalLookupWhenDisabled ==
    ~bot.local_search_enabled
       => /\ ~looked_local
          /\ \A f \in ImageFields : product_image[f] # LocalImage

(* ----------------------------- claims: classifier ----------------------- *)

RuleSignature(i) == Signature(classify.rules[i], classify.tokens)

SameScore(i, j) ==
    /\ RuleSignature(i)[1] = RuleSignature(j)[1]
    /\ RuleSignature(i)[2] = RuleSignature(j)[2]
    /\ RuleSignature(i)[3] = RuleSignature(j)[3]

\* C21: when the rule selected has a positive score and another rule has the
\* same (score, matched-term count, longest matched term), the category name
\* of the selected rule is not lexicographically larger than the other's.
C21_TieBreakSmallerName ==
    (classify.rule # 0 /\ RuleSignature(classify.rule)[1] > 0)
       => \A j \in 1..Len(classify.rules) :
             SameScore(classify.rule, j)
                => RuleSignature(classify.rule)[4] <= RuleSignature(j)[4]

\* C22: the rule engine never selects a rule whose score for the product's
\* text is zero.
C22_ZeroScoreNeverWins ==
    classify.rule # 0
       => RuleScore(classify.rules[classify.rule].keywords, classify.tokens)[1] > 0

TierOrder == <<"rules", "brand", "data", "mistral">>

\* C23: the tiers are consulted in the order rules, brand, data, AI, and a
\* tier is consulted only after every earlier tier returned no match; after
\* a match no further tier is consulted.
C23_TiersInOrder ==
    \A i \in 1..Len(classify.calls) :
       /\ classify.calls[i].tier = TierOrder[i]
       /\ i < Len(classify.calls) => classify.calls[i].result = None

\* the rule engine, the brand heuristic and the statistical tier found
\* nothing and the AI tier was consulted
C23_Witness ==
    /\ Len(classify.calls) = 4
    /\ classify.calls[4].tier = "mistral"
    /\ classify.calls[4].result # None

\* C24: the category the classifier chooses for a product, and the category
\* a product is moved to, is never an uncategorized variant.
C24_NeverUncategorized ==
    /\ classify.target # None => ~IsUncategorized(classify.target)
    /\ classify.category # classify.category0 => ~IsUncategorized(classify.category)

\* C25: in a dry run the Category rows and the product's category stay as
\* they were before the run.
C25_DryRunPersistsNothing ==
    classify.dry_run
       => /\ classify.categories = classify.categories0
          /\ classify.category = classify.category0

(* ------------------------- claims: asset generation --------------------- *)

\* C26: an ensure_descriptions call without force for a product whose
\* description is not empty calls the text generator zero times, leaves the
\* three description fields as they were and reports no change.
C26_DescriptionSkipped ==
    [][(gen'.ngen = gen.ngen + 1 /\ gen'.last.kind = "description"
          /\ ~gen'.last.force /\ gen.description # "")
         => /\ gen'.last.calls = 0
            /\ gen'.last.changes = {}
            /\ gen'.description = gen.description
            /\ gen'.short_description = gen.short_description
            /\ gen'.long_description = gen.long_description]_vars

Flagged(item) == item.firmware \/ item.manual

\* C27: pick_best_pdf returns None when every result is flagged as firmware
\* or manual; otherwise it returns a result with the highest score, the
\* first one of those that have it.
C27_PickBestPdf ==
    pdf.pc = "done"
       => LET n == Len(pdf.items)
              r == pdf.result
          IN IF \A i \in 1..n : Flagged(pdf.items[i])
             THEN r = 0
             ELSE /\ r \in 1..n
                  /\ \A j \in 1..n :
                        /\ ScoreResult(pdf.items[r]) >= ScoreResult(pdf.items[j])
                        /\ ScoreResult(pdf.items[r]) = ScoreResult(pdf.items[j]) => r <= j

\* C28: the product never has more than one ProductAsset row of one asset
\* type.
C28_OneAssetPerType ==
    \A a \in AssetTypes : gen.assets[a] <= 1

(* ------------------------------ claims: jobs ---------------------------- *)

\* C29: a started_at that is set never changes, and _start_job on a job
\* that is already running changes no field of the job.
C29_StartedAtSetOnce ==
    [][\A j \in 1..Len(jobs) :
          /\ jobs[j].started_at # Null => jobs'[j].started_at = jobs[j].started_at
          /\ (jobs[j].status = RUNNING
                /\ \E c \in Ctx : /\ run[c].job_id = j
                                  /\ run[c].pc = "begin"
                                  /\ run'[c].pc = "started")
                => jobs'[j] = jobs[j]]_vars

\* the task runs its job again after a failed attempt: the job, running
\* since the first attempt, was started a second time
C29_Witness ==
    /\ run[Task].pc = "started"
    /\ run[Task].retries >= 1
    /\ jobs[run[Task].job_id].status = RUNNING
    /\ jobs[run[Task].job_id].started_at # Null

\* C30: when the worker takes a job from its queue, the asset kinds and the
\* force flags it is about to execute are those recorded on the job row,
\* merged requests included.
C30_WorkerRunsMergedRequest ==
    \A w \in WorkerIds :
       LET r == run[WorkerCtx(w)]
       IN (r.pc = "begin" /\ jobs[r.job_id].status = QUEUED)
             => /\ r.assets = jobs[r.job_id].assets
                /\ r.force = jobs[r.job_id].force

====
